---- MODULE Spec2Model ----
(***************************************************************************)
(* Model of AudioRelayService (src/unnamed/part_001): the session store,   *)
(* the per-session audio buffer, the ffmpeg transcode step with its        *)
(* temporary files, and the paced WebSocket sender.                        *)
(*                                                                         *)
(* JavaScript runs one callback at a time, so every action below is one    *)
(* run-to-completion step: an API call up to its first await, or one       *)
(* event/timer callback together with the promise continuations it         *)
(* triggers (the body after an await and the finally block).               *)
(* The "message" and "close" listeners of the socket only log: the former  *)
(* is left out, the latter is the step in which the peer closes the        *)
(* socket.  The ws library has left readyState OPEN when it emits "error". *)
(* ffmpeg is a black box: any exit status, and any output file or none.    *)
(* The file system is taken to work (writeFileSync and unlinkSync do not   *)
(* throw).  PCM payloads are represented by their size and binary frames   *)
(* by the byte range pcmData.subarray(off, end) they are a view of.        *)
(***************************************************************************)
EXTENDS Integers, Sequences, FiniteSets, TLC

\* ---------------------------------------------------------------- bounds
MaxRelays == 2     \* RelaySession objects ever created
MaxCalls  == 2     \* processAndSend activations that start processing
MaxChunks == 2     \* chunks held by one audioBuffer

\* the values the clients and ffmpeg may supply; each specification below
\* lets its clients draw from a subset of them
Ids    == {"s1", "s2"}          \* session ids the callers use
Urls   == {"u1", "u2"}          \* meetingJoinUrl values
Chunks == {<<1>>, <<2>>}        \* audio chunks the callers write
PcmLens == {0, 2500}            \* sizes of the file ffmpeg may leave
ExitCodes == {0, 1}             \* ffmpeg exit status

\* ------------------------------------------------------ program constants
chunkSize == 1024

NoRelay == 0        \* sessions.get(id) === undefined
NoSocket == 0       \* relay.socket === null
Untouched == -1     \* ffmpeg left the output path as it was

VARIABLES
  sessions,  \* the Map sessions (line 19): id -> index into relays, or NoRelay
  relays,    \* the RelaySession objects ever created (lines 9-14, 27-32)
  calls,     \* the processAndSend activations that set the guard (lines 73-116)
  socks,     \* socks[c]: the WS object and closure of sendToTingwu in call c
  files,     \* the temporary files of each session id (lines 81-82)
  last       \* what the latest step reported to its caller

vars == <<sessions, relays, calls, socks, files, last>>

\* ---------------------------------------------------------------- helpers
Min(a, b) == IF a < b THEN a ELSE b

RECURSIVE Concat(_)
Concat(list) ==
  IF list = <<>> THEN <<>> ELSE Head(list) \o Concat(Tail(list))

StartMsg == [kind |-> "start", off |-> 0, end |-> 0]
StopMsg  == [kind |-> "stop", off |-> 0, end |-> 0]
BinaryMsg(off, end) == [kind |-> "binary", off |-> off, end |-> end]

\* what the latest step showed its caller, when the step changed nothing
\* else (a call that threw or returned early), and the exit status and
\* output size of the latest ffmpeg run
NoOp == [op |-> "none", sid |-> "", outcome |-> "", arg |-> 0]
Ret(op, id, outcome) == [op |-> op, sid |-> id, outcome |-> outcome, arg |-> 0]
Exit(id, code, out) ==
  [op |-> "ffmpeg", sid |-> id, outcome |-> IF code = 0 THEN "exit0" ELSE "exit1",
   arg |-> out]

\* a WebSocket that `new WS(url)` has not created yet; readyState "CLOSED"
\* stands for both CLOSING and CLOSED, which the code never tells apart
NoSock == [readyState |-> "NONE", sent |-> <<>>, timer |-> "none",
           offset |-> 0, pcmLen |-> 0]

\* the two temporary files of one session id; the content of the output
\* file is represented by its size
NoOutput == [exists |-> FALSE, size |-> 0]
NoFiles == [input |-> FALSE, output |-> NoOutput]

Init ==
  /\ sessions = [id \in Ids |-> NoRelay]
  /\ relays = <<>>
  /\ calls = <<>>
  /\ socks = <<>>
  /\ files = [id \in Ids |-> NoFiles]
  /\ last = NoOp

\* ------------------------------------------------------------ sync API
\* mutant: create does not look for an existing session
create_Overwrite(id, url) ==
  /\ Len(relays) < MaxRelays
  /\ relays' = Append(relays, [socket |-> NoSocket, audioBuffer |-> <<>>,
                               meetingJoinUrl |-> url, isProcessing |-> FALSE])
  /\ sessions' = [sessions EXCEPT ![id] = Len(relays) + 1]
  /\ last' = NoOp
  /\ UNCHANGED <<calls, socks, files>>

create(id, url) ==
  IF sessions[id] # NoRelay
  THEN /\ last' = Ret("create", id, "noop")
       /\ UNCHANGED <<sessions, relays, calls, socks, files>>
  ELSE /\ Len(relays) < MaxRelays
       /\ relays' = Append(relays, [socket |-> NoSocket, audioBuffer |-> <<>>,
                                    meetingJoinUrl |-> url, isProcessing |-> FALSE])
       /\ sessions' = [sessions EXCEPT ![id] = Len(relays) + 1]
       /\ last' = NoOp
       /\ UNCHANGED <<calls, socks, files>>

\* mutant: write creates the session it does not find
write_Upsert(id, chunk) ==
  IF sessions[id] = NoRelay
  THEN /\ Len(relays) < MaxRelays
       /\ relays' = Append(relays, [socket |-> NoSocket, audioBuffer |-> <<chunk>>,
                                    meetingJoinUrl |-> "u1", isProcessing |-> FALSE])
       /\ sessions' = [sessions EXCEPT ![id] = Len(relays) + 1]
       /\ last' = NoOp
       /\ UNCHANGED <<calls, socks, files>>
  ELSE LET r == sessions[id] IN
       /\ Len(relays[r].audioBuffer) < MaxChunks
       /\ relays' = [relays EXCEPT ![r].audioBuffer = Append(@, chunk)]
       /\ last' = NoOp
       /\ UNCHANGED <<sessions, calls, socks, files>>

write(id, chunk) ==
  IF sessions[id] = NoRelay
  THEN /\ last' = Ret("write", id, "throw")
       /\ UNCHANGED <<sessions, relays, calls, socks, files>>
  ELSE LET r == sessions[id] IN
       /\ Len(relays[r].audioBuffer) < MaxChunks
       /\ relays' = [relays EXCEPT ![r].audioBuffer = Append(@, chunk)]
       /\ last' = NoOp
       /\ UNCHANGED <<sessions, calls, socks, files>>

\* mutant: the session is replaced by a fresh one with the new destination
updateUrl_Reset(id, url) ==
  IF sessions[id] = NoRelay
  THEN /\ last' = Ret("updateUrl", id, "noop")
       /\ UNCHANGED <<sessions, relays, calls, socks, files>>
  ELSE /\ relays' = [relays EXCEPT ![sessions[id]] =
                       [socket |-> NoSocket, audioBuffer |-> <<>>,
                        meetingJoinUrl |-> url, isProcessing |-> FALSE]]
       /\ last' = NoOp
       /\ UNCHANGED <<sessions, calls, socks, files>>

updateUrl(id, url) ==
  IF sessions[id] = NoRelay
  THEN /\ last' = Ret("updateUrl", id, "noop")
       /\ UNCHANGED <<sessions, relays, calls, socks, files>>
  ELSE /\ relays' = [relays EXCEPT ![sessions[id]].meetingJoinUrl = url]
       /\ last' = NoOp
       /\ UNCHANGED <<sessions, calls, socks, files>>

\* readyState === WS.OPEN
IsOpen(s) == socks[s].readyState = "OPEN"

\* mutant: stop forgets the session without closing its socket
stop_NoClose(id) ==
  IF sessions[id] = NoRelay
  THEN /\ last' = Ret("stop", id, "noop")
       /\ UNCHANGED <<sessions, relays, calls, socks, files>>
  ELSE /\ sessions' = [sessions EXCEPT ![id] = NoRelay]
       /\ last' = NoOp
       /\ UNCHANGED <<relays, calls, socks, files>>

stop(id) ==
  IF sessions[id] = NoRelay
  THEN /\ last' = Ret("stop", id, "noop")
       /\ UNCHANGED <<sessions, relays, calls, socks, files>>
  ELSE LET r == sessions[id]
           s == relays[r].socket IN
       /\ socks' = IF s # NoSocket /\ IsOpen(s)
                   THEN [socks EXCEPT ![s].readyState = "CLOSED"]
                   ELSE socks
       /\ sessions' = [sessions EXCEPT ![id] = NoRelay]
       /\ last' = NoOp
       /\ UNCHANGED <<relays, calls, files>>

\* ------------------------------------------------------- processAndSend
\* mutant: the guard is never observed
IsBusy_NoGuard(r) == FALSE

\* mutant: one guard for the whole service
IsBusy_AnySession(r) == \E q \in 1..Len(relays) : relays[q].isProcessing

\* if (relay.isProcessing)
IsBusy(r) == relays[r].isProcessing

\* mutant: the empty buffer is not looked for
IsEmptyBuffer_Never(r) == FALSE

\* if (relay.audioBuffer.length === 0)
IsEmptyBuffer(r) == Len(relays[r].audioBuffer) = 0

\* the call up to `await this.transcodeWithFfmpeg(...)`
processAndSend(id) ==
  IF sessions[id] = NoRelay
  THEN /\ last' = Ret("processAndSend", id, "throw")
       /\ UNCHANGED <<sessions, relays, calls, socks, files>>
  ELSE LET r == sessions[id] IN
    IF IsEmptyBuffer(r)
    THEN /\ last' = Ret("processAndSend", id, "empty")
         /\ UNCHANGED <<sessions, relays, calls, socks, files>>
    ELSE IF IsBusy(r)
    THEN /\ last' = Ret("processAndSend", id, "busy")
         /\ UNCHANGED <<sessions, relays, calls, socks, files>>
    ELSE LET fullAudio == Concat(relays[r].audioBuffer) IN
         /\ Len(calls) < MaxCalls
         /\ relays' = [relays EXCEPT ![r].isProcessing = TRUE]
         /\ files' = [files EXCEPT ![id].input = TRUE]
         /\ calls' = Append(calls, [sessionId |-> id, relay |-> r,
                                    fullAudio |-> fullAudio, phase |-> "transcode",
                                    outcome |-> "pending"])
         /\ socks' = Append(socks, NoSock)
         /\ last' = NoOp
         /\ UNCHANGED sessions

\* mutant: only the input file is unlinked
FinallyFiles_KeepOutput(c, fs) == [fs EXCEPT ![calls[c].sessionId].input = FALSE]

\* mutant: the finally block also empties the session's buffer
FinallyRelays_ClearBuffer(c) ==
  [relays EXCEPT ![calls[c].relay].isProcessing = FALSE,
                 ![calls[c].relay].audioBuffer = <<>>]

\* finally { relay.isProcessing = false; unlink both temp files }
FinallyRelays(c) == [relays EXCEPT ![calls[c].relay].isProcessing = FALSE]
FinallyFiles(c, fs) == [fs EXCEPT ![calls[c].sessionId] = NoFiles]

\* the promise of the processAndSend call settles after the finally block
Returned(c, outcome) == [calls EXCEPT ![c].phase = "returned", ![c].outcome = outcome]

\* ffmpegProcess.on("close"): code === 0 resolves, anything else rejects
TranscodeOk(code) == code = 0

\* mutant: an empty output file is accepted
OutputUsable_ExistsOnly(f) == f.exists

\* existsSync + readFileSync + length check on the output file
OutputUsable(f) == f.exists /\ f.size # 0

\* ffmpeg exits; the continuation of processAndSend runs up to the await of
\* sendToTingwu(), whose executor creates the socket, or to the finally block
FfmpegClose(c, code, out) ==
  /\ c \in 1..Len(calls)
  /\ calls[c].phase = "transcode"
  /\ LET id == calls[c].sessionId
         r == calls[c].relay
         fs == IF out = Untouched THEN files
               ELSE [files EXCEPT ![id].output = [exists |-> TRUE, size |-> out]]
         f == fs[id].output
     IN
     IF TranscodeOk(code) /\ OutputUsable(f)
     THEN /\ calls' = [calls EXCEPT ![c].phase = "send"]
          /\ socks' = [socks EXCEPT ![c].readyState = "CONNECTING",
                                    ![c].pcmLen = f.size]
          /\ relays' = [relays EXCEPT ![r].socket = c]
          /\ files' = fs
     ELSE /\ calls' = Returned(c, "rejected")
          /\ relays' = FinallyRelays(c)
          /\ files' = FinallyFiles(c, fs)
          /\ UNCHANGED socks
  /\ last' = Exit(calls[c].sessionId, code, out)
  /\ UNCHANGED sessions

\* ffmpegProcess.on("error"): spawn failed, the promise rejects
FfmpegError(c) ==
  /\ c \in 1..Len(calls)
  /\ calls[c].phase = "transcode"
  /\ calls' = Returned(c, "rejected")
  /\ relays' = FinallyRelays(c)
  /\ files' = FinallyFiles(c, files)
  /\ last' = Ret("ffmpeg", calls[c].sessionId, "error")
  /\ UNCHANGED <<sessions, socks>>

\* ---------------------------------------------------------- sendToTingwu
\* mutant: the guard is not reset when the stream settles
SettleRelays_KeepGuard(c) == relays

\* resolve() / reject(error) of the promise sendToTingwu returned: the first
\* one settles it, processAndSend resumes, runs finally and returns
SettleRelays(c) == IF calls[c].outcome = "pending" THEN FinallyRelays(c) ELSE relays
SettleFiles(c) == IF calls[c].outcome = "pending" THEN FinallyFiles(c, files) ELSE files
SettleCalls(c, outcome) ==
  IF calls[c].outcome = "pending" THEN Returned(c, outcome) ELSE calls

\* socket.on("open"): send StartTranscription, arm the 500 ms timer
SocketOpen(c) ==
  /\ c \in 1..Len(socks)
  /\ socks[c].readyState = "CONNECTING"
  /\ socks' = [socks EXCEPT ![c].readyState = "OPEN",
                            ![c].sent = Append(@, StartMsg),
                            ![c].timer = "settle"]
  /\ last' = NoOp
  /\ UNCHANGED <<sessions, relays, calls, files>>

\* mutant: the last chunk is not clamped to the payload
ChunkEnd_NoClamp(offset, len) == offset + chunkSize

\* const end = Math.min(offset + chunkSize, pcmData.length)
ChunkEnd(offset, len) == Min(offset + chunkSize, len)

\* mutant: the end of the payload is missed by one
AllSent_OffByOne(offset, len) == offset > len

\* if (offset >= pcmData.length)
AllSent(offset, len) == offset >= len

\* mutant: the send loop does not look at the socket's readyState
sendNextChunk_NoStateCheck(c) ==
  IF AllSent(socks[c].offset, socks[c].pcmLen)
  THEN [socks EXCEPT ![c].sent = Append(@, StopMsg), ![c].timer = "grace"]
  ELSE LET end == ChunkEnd(socks[c].offset, socks[c].pcmLen) IN
       [socks EXCEPT ![c].sent = Append(@, BinaryMsg(socks[c].offset, end)),
                     ![c].offset = end,
                     ![c].timer = "pacing"]

\* one run of sendNextChunk on socket c
sendNextChunk(c) ==
  IF ~IsOpen(c)
  THEN [socks EXCEPT ![c].timer = "none"]
  ELSE IF AllSent(socks[c].offset, socks[c].pcmLen)
  THEN [socks EXCEPT ![c].sent = Append(@, StopMsg), ![c].timer = "grace"]
  ELSE LET end == ChunkEnd(socks[c].offset, socks[c].pcmLen) IN
       [socks EXCEPT ![c].sent = Append(@, BinaryMsg(socks[c].offset, end)),
                     ![c].offset = end,
                     ![c].timer = "pacing"]

\* the 500 ms timer of the open handler, or the 50 ms timer between chunks
TimerSend(c) ==
  /\ c \in 1..Len(socks)
  /\ socks[c].timer \in {"settle", "pacing"}
  /\ socks' = sendNextChunk(c)
  /\ last' = NoOp
  /\ UNCHANGED <<sessions, relays, calls, files>>

\* the 3000 ms timer after StopTranscription: resolve()
TimerGrace(c) ==
  /\ c \in 1..Len(socks)
  /\ socks[c].timer = "grace"
  /\ socks' = [socks EXCEPT ![c].timer = "none"]
  /\ calls' = SettleCalls(c, "resolved")
  /\ relays' = SettleRelays(c)
  /\ files' = SettleFiles(c)
  /\ last' = NoOp
  /\ UNCHANGED sessions

\* mutant: the error handler sends StopTranscription before it rejects
SocketError_SendsStop(c) ==
  /\ c \in 1..Len(socks)
  /\ socks[c].readyState \in {"CONNECTING", "OPEN"}
  /\ socks' = [socks EXCEPT ![c].readyState = "CLOSED",
                            ![c].sent = Append(@, StopMsg)]
  /\ calls' = SettleCalls(c, "rejected")
  /\ relays' = SettleRelays(c)
  /\ files' = SettleFiles(c)
  /\ last' = NoOp
  /\ UNCHANGED sessions

\* socket.on("error"): the connection failed or broke; ws has left OPEN
\* when it emits the event
SocketError(c) ==
  /\ c \in 1..Len(socks)
  /\ socks[c].readyState \in {"CONNECTING", "OPEN"}
  /\ socks' = [socks EXCEPT ![c].readyState = "CLOSED"]
  /\ calls' = SettleCalls(c, "rejected")
  /\ relays' = SettleRelays(c)
  /\ files' = SettleFiles(c)
  /\ last' = NoOp
  /\ UNCHANGED sessions

\* mutant: the close handler settles the call as a success
SocketClose_Resolves(c) ==
  /\ c \in 1..Len(socks)
  /\ IsOpen(c)
  /\ socks' = [socks EXCEPT ![c].readyState = "CLOSED"]
  /\ calls' = SettleCalls(c, "resolved")
  /\ relays' = SettleRelays(c)
  /\ files' = SettleFiles(c)
  /\ last' = NoOp
  /\ UNCHANGED sessions

\* the peer closes an open connection: "close" is emitted, no "error"
SocketClose(c) ==
  /\ c \in 1..Len(socks)
  /\ IsOpen(c)
  /\ socks' = [socks EXCEPT ![c].readyState = "CLOSED"]
  /\ last' = NoOp
  /\ UNCHANGED <<sessions, relays, calls, files>>

\* ------------------------------------------------------ specifications
\* the calls the service's clients make, with their arguments drawn from
\* the given sets
Api(ids, urls, chunks) ==
  \/ \E id \in ids, url \in urls : create(id, url)
  \/ \E id \in ids, ch \in chunks : write(id, ch)
  \/ \E id \in ids, url \in urls : updateUrl(id, url)
  \/ \E id \in ids : processAndSend(id)
  \/ \E id \in ids : stop(id)

\* the callbacks of the ffmpeg child process
ProcessEvents ==
  \/ \E c \in 1..MaxCalls, code \in ExitCodes, out \in PcmLens \cup {Untouched} :
        FfmpegClose(c, code, out)
  \/ \E c \in 1..MaxCalls : FfmpegError(c)

\* the callbacks of sockets and timers
SocketEvents ==
  \/ \E c \in 1..MaxCalls : SocketOpen(c)
  \/ \E c \in 1..MaxCalls : TimerSend(c)
  \/ \E c \in 1..MaxCalls : TimerGrace(c)
  \/ \E c \in 1..MaxCalls : SocketError(c)
  \/ \E c \in 1..MaxCalls : SocketClose(c)

\* one session id, stopped and created again at will, with every
\* interleaving of its processAndSend calls and their callbacks
Next == Api({"s1"}, {"u1"}, {<<1>>}) \/ ProcessEvents \/ SocketEvents

Spec == Init /\ [][Next]_vars

\* the same with two destinations to create and update the session with
NextUrl == Api({"s1"}, Urls, {<<1>>}) \/ ProcessEvents \/ SocketEvents

SpecUrl == Init /\ [][NextUrl]_vars

\* the same with two session ids in use side by side
NextPair == Api(Ids, {"u1"}, {<<1>>}) \/ ProcessEvents \/ SocketEvents

SpecPair == Init /\ [][NextPair]_vars

\* sendToTingwu of one call, from the moment it has created its socket, for
\* PCM sizes around the multiples of the frame size: InitSend is the state
\* that create, write, processAndSend and a successful ffmpeg exit with n
\* bytes of output lead to.  The socket may fail or be closed by the peer,
\* and the client may stop the session, at any point of the stream.
SendLens == {1, 2, 1023, 1024, 1025, 2047, 2048, 2049, 2500, 3072}

InitSend ==
  \E n \in SendLens :
    /\ sessions = [id \in Ids |-> IF id = "s1" THEN 1 ELSE NoRelay]
    /\ relays = << [socket |-> 1, audioBuffer |-> << <<1>> >>,
                    meetingJoinUrl |-> "u1", isProcessing |-> TRUE] >>
    /\ calls = << [sessionId |-> "s1", relay |-> 1, fullAudio |-> <<1>>,
                   phase |-> "send", outcome |-> "pending"] >>
    /\ socks = << [NoSock EXCEPT !.readyState = "CONNECTING", !.pcmLen = n] >>
    /\ files = [id \in Ids |-> IF id = "s1"
                                THEN [input |-> TRUE,
                                      output |-> [exists |-> TRUE, size |-> n]]
                                ELSE NoFiles]
    /\ last = Exit("s1", 0, n)

NextSend == SocketEvents \/ stop("s1")

SpecSend == InitSend /\ [][NextSend]_vars

\* What the runtime guarantees to happen: a spawned ffmpeg exits, a
\* connecting socket opens or fails, an armed timer fires.  Nothing obliges
\* the clients to call, an open socket to break, or the peer to close.
FfmpegExit(c) ==
  \/ \E code \in ExitCodes, out \in PcmLens \cup {Untouched} : FfmpegClose(c, code, out)
  \/ FfmpegError(c)

ConnectDone(c) ==
  \/ SocketOpen(c)
  \/ c \in 1..Len(socks) /\ socks[c].readyState = "CONNECTING" /\ SocketError(c)

Fairness ==
  \A c \in 1..MaxCalls :
    /\ WF_vars(FfmpegExit(c))
    /\ WF_vars(ConnectDone(c))
    /\ WF_vars(TimerSend(c))
    /\ WF_vars(TimerGrace(c))

FairSpec == Init /\ [][Next]_vars /\ Fairness

\* ------------------------------------------------------------ vocabulary
CallIds == 1..Len(calls)

\* call c has set the processing guard and has not returned to its caller
InFlight(c) == calls[c].outcome = "pending"

\* the session stored under id is being processed by an in-flight call
Guarded(id) ==
  /\ sessions[id] # NoRelay
  /\ \E c \in CallIds : InFlight(c) /\ calls[c].relay = sessions[id]

\* the step is a processAndSend(id) call: it either reports an early
\* return or a throw, or it starts a new activation
IsProcessAndSend(id) ==
  \/ last' = Ret("processAndSend", id, "throw")
  \/ last' = Ret("processAndSend", id, "empty")
  \/ last' = Ret("processAndSend", id, "busy")
  \/ Len(calls') = Len(calls) + 1 /\ calls'[Len(calls')].sessionId = id

\* -------------------------------------------------------------------- C1
\* C1: at most one transcode+stream sequence is in flight per session, and a
\* processAndSend(id) called while an earlier call on the same session holds
\* the guard returns without error (the "already processing" early return)
\* and changes nothing: no converter run, no socket, no frame, same guard.
OneInFlight ==
  \A c1, c2 \in CallIds :
    InFlight(c1) /\ InFlight(c2) /\ calls[c1].relay = calls[c2].relay => c1 = c2

SecondCallRejected ==
  \A id \in Ids :
    Guarded(id) /\ IsProcessAndSend(id) =>
      /\ last' = Ret("processAndSend", id, "busy")
      /\ UNCHANGED <<sessions, relays, calls, socks, files>>

C1_SingleFlight == []OneInFlight /\ [][SecondCallRejected]_vars

\* a second call was turned away while the first one is streaming
C1_Witness ==
  /\ last = Ret("processAndSend", "s1", "busy")
  /\ \E c \in CallIds :
       /\ InFlight(c) /\ calls[c].relay = sessions["s1"]
       /\ socks[c].timer = "pacing"
       /\ relays[calls[c].relay].isProcessing

\* -------------------------------------------------------------------- C2
\* C2: every processAndSend call that set the processing guard eventually
\* returns to its caller and resets the guard, under fair scheduling of
\* timers and socket events, also when the socket is observed closed in the
\* middle of the send loop.
C2_EventuallyReturns ==
  \A c \in 1..MaxCalls :
    (c <= Len(calls)) ~>
      (/\ c <= Len(calls)
       /\ calls[c].phase = "returned"
       /\ ~relays[calls[c].relay].isProcessing)

\* -------------------------------------------------------------------- C3
\* C3: on every exit path of a processAndSend call that started processing
\* (success, converter failure, missing or empty converter output, streaming
\* failure), at the moment the call returns both temporary files of its
\* session id are absent and the processing guard of its session is false.
ReturnsNow(c) == InFlight(c) /\ calls'[c].phase = "returned"

C3_CleanupOnReturn ==
  [][\A c \in CallIds :
       ReturnsNow(c) =>
         /\ files'[calls[c].sessionId] = NoFiles
         /\ ~relays'[calls[c].relay].isProcessing]_vars

\* one call has returned after a complete stream, another after a failure
\* that left an output file behind for the finally block to remove
C3_Witness ==
  /\ \E c \in CallIds : calls[c].outcome = "resolved" /\ socks[c].sent # <<>>
  /\ \E c \in CallIds : calls[c].outcome = "rejected"
  /\ last = Exit("s1", 1, 2500)
  /\ files["s1"] = NoFiles

\* -------------------------------------------------------------------- C4
\* C4: for a PCM payload of N > 0 bytes, a processAndSend call that resolves
\* has sent exactly one start-control frame, then exactly ceil(N/1024) binary
\* frames, then exactly one stop-control frame; every binary frame has at
\* most 1024 bytes, only the last may be shorter, the frames concatenated in
\* send order equal the payload, and the 3000 ms timer armed after the
\* stop-control frame resolves the call.
PcmData(n) == [i \in 1..n |-> (i * 7) % 251]       \* sample payload bytes
FrameBytes(m, pcm) == SubSeq(pcm, m.off + 1, m.end) \* pcmData.subarray(off, end)
CeilDiv(n, d) == (n + d - 1) \div d

CompleteStream(c) ==
  LET n == socks[c].pcmLen
      sent == socks[c].sent
      k == CeilDiv(n, chunkSize)
      frame(i) == sent[i + 1]
  IN /\ n > 0
     /\ Len(sent) = k + 2
     /\ sent[1] = StartMsg
     /\ sent[k + 2] = StopMsg
     /\ \A i \in 1..k :
          /\ frame(i).kind = "binary"
          /\ frame(i).off >= 0 /\ frame(i).end <= n
          /\ frame(i).end - frame(i).off <= chunkSize
          /\ frame(i).end - frame(i).off > 0
          /\ i < k => frame(i).end - frame(i).off = chunkSize
     /\ Concat([i \in 1..k |-> FrameBytes(frame(i), PcmData(n))]) = PcmData(n)

StreamedWhenResolved ==
  \A c \in CallIds :
    calls[c].outcome = "resolved" \/ socks[c].timer = "grace" => CompleteStream(c)

GraceResolves ==
  \A c \in CallIds :
    InFlight(c) /\ socks[c].timer = "grace" /\ socks'[c].timer # "grace" =>
      calls'[c].outcome = "resolved"

C4_ExactFrames == []StreamedWhenResolved /\ [][GraceResolves]_vars

\* 2500 bytes went out as 1024 + 1024 + 452 and the call has resolved
C4_Witness ==
  \E c \in CallIds :
    /\ calls[c].outcome = "resolved"
    /\ socks[c].pcmLen = 2500
    /\ socks[c].sent = <<StartMsg, BinaryMsg(0, 1024), BinaryMsg(1024, 2048),
                         BinaryMsg(2048, 2500), StopMsg>>

\* -------------------------------------------------------------------- C5
\* C5: in every run of one invocation, aborted and failed runs included, the
\* messages sent on its socket are ordered: the log only grows at its end,
\* it begins with the start-control message, no binary frame and no
\* start-control message follows the stop-control message, binary frames
\* go out in increasing payload offset without gap or repeat, and there is
\* at most one start-control and one stop-control message.
OrderedLog(sent) ==
  \A i \in 1..Len(sent) :
    /\ (sent[i].kind = "start") = (i = 1)
    /\ sent[i].kind = "stop" => i = Len(sent)
    /\ sent[i].kind = "binary" =>
         /\ sent[i].off = (IF sent[i - 1].kind = "binary" THEN sent[i - 1].end ELSE 0)
         /\ sent[i].end > sent[i].off

AppendOnly ==
  \A c \in CallIds :
    \/ socks'[c].sent = socks[c].sent
    \/ /\ Len(socks'[c].sent) = Len(socks[c].sent) + 1
       /\ SubSeq(socks'[c].sent, 1, Len(socks[c].sent)) = socks[c].sent

C5_OrderedFrames ==
  [](\A c \in CallIds : OrderedLog(socks[c].sent)) /\ [][AppendOnly]_vars

\* a run aborted after its second frame, and never finished
C5_Witness ==
  \E c \in CallIds :
    /\ socks[c].pcmLen = 2500
    /\ socks[c].sent = <<StartMsg, BinaryMsg(0, 1024), BinaryMsg(1024, 2048)>>
    /\ socks[c].readyState = "CLOSED"
    /\ socks[c].timer = "none"

\* -------------------------------------------------------------------- C6
\* C6: when stop(id) is called while processAndSend(id) is mid-stream (its
\* socket open, a binary frame still unsent), the step closes the open
\* connection and removes the session from the store; on a closed socket no
\* binary frame and no stop-control message is sent any more, and the
\* in-flight call is not failed with an error.
MidStream(id, c) ==
  /\ sessions[id] # NoRelay
  /\ calls[c].relay = sessions[id]
  /\ InFlight(c)
  /\ IsOpen(c)
  /\ socks[c].offset < socks[c].pcmLen

IsStop(id) == sessions[id] # NoRelay /\ sessions'[id] = NoRelay

StopClosesStream ==
  \A id \in Ids : \A c \in CallIds :
    MidStream(id, c) /\ IsStop(id) =>
      /\ socks'[c].readyState = "CLOSED"
      /\ socks'[c].sent = socks[c].sent
      /\ calls'[c] = calls[c]

SilentAfterClose ==
  \A c \in CallIds :
    socks[c].readyState = "CLOSED" =>
      /\ socks'[c].readyState = "CLOSED"
      /\ socks'[c].sent = socks[c].sent
      /\ InFlight(c) => calls'[c].outcome # "rejected"

C6_StopMidStream == [][StopClosesStream /\ SilentAfterClose]_vars

\* the session was stopped after the first of three frames; the timer has
\* fired since, nothing more was sent and the call has not failed
C6_Witness ==
  \E c \in CallIds :
    /\ sessions[calls[c].sessionId] = NoRelay
    /\ relays[calls[c].relay].socket = c
    /\ socks[c].readyState = "CLOSED"
    /\ socks[c].sent = <<StartMsg, BinaryMsg(0, 1024)>>
    /\ socks[c].pcmLen = 2500
    /\ socks[c].timer = "none"
    /\ InFlight(c)

\* -------------------------------------------------------------------- C7
\* C7: if ffmpeg cannot be spawned, exits with a non-zero status, or exits
\* with zero but leaves the output file missing or empty, processAndSend
\* fails with an error, no socket is opened and no frame is sent, and
\* afterwards both temporary files are absent and the guard is false.
FfmpegEnds(c) == calls[c].phase = "transcode" /\ calls'[c].phase # "transcode"

ConverterFailed(c) ==
  LET id == calls[c].sessionId
      old == files[id].output
  IN \/ last' = Ret("ffmpeg", id, "error")
     \/ \E out \in PcmLens \cup {Untouched} : last' = Exit(id, 1, out)
     \/ last' = Exit(id, 0, 0)
     \/ last' = Exit(id, 0, Untouched) /\ (~old.exists \/ old.size = 0)

C7_ConverterFailure ==
  [][\A c \in CallIds :
       FfmpegEnds(c) /\ ConverterFailed(c) =>
         /\ calls'[c].phase = "returned" /\ calls'[c].outcome = "rejected"
         /\ socks' = socks /\ socks[c] = NoSock
         /\ relays'[calls[c].relay].socket = relays[calls[c].relay].socket
         /\ files'[calls[c].sessionId] = NoFiles
         /\ ~relays'[calls[c].relay].isProcessing]_vars

\* ffmpeg exited with status 0 and an empty output file: the call failed
\* without a socket, the files are gone and the guard is down
C7_Witness ==
  /\ last = Exit("s1", 0, 0)
  /\ \E c \in CallIds :
       /\ calls[c].outcome = "rejected"
       /\ socks[c] = NoSock
       /\ relays[calls[c].relay].socket = NoSocket
       /\ ~relays[calls[c].relay].isProcessing
  /\ files["s1"] = NoFiles

\* -------------------------------------------------------------------- C8
\* C8: after a hard failure of processAndSend(id) (converter failure or
\* socket error) on a session still in the store, a retry is safe: the guard
\* is held only while a call is in flight, so it is false after the
\* failure, and the next processAndSend(id) is not turned away as already
\* processing but starts a new transcode+stream sequence on the buffer.
GuardOwned ==
  \A r \in 1..Len(relays) :
    relays[r].isProcessing => \E c \in CallIds : InFlight(c) /\ calls[c].relay = r

FailedOn(id) ==
  /\ sessions[id] # NoRelay
  /\ \E c \in CallIds : calls[c].relay = sessions[id] /\ calls[c].outcome = "rejected"

RetryStarts ==
  \A id \in Ids :
    FailedOn(id) /\ ~Guarded(id) /\ IsProcessAndSend(id) =>
      /\ ~relays[sessions[id]].isProcessing
      /\ Len(calls') = Len(calls) + 1
      /\ calls'[Len(calls')].relay = sessions[id]
      /\ calls'[Len(calls')].phase = "transcode"
      /\ calls'[Len(calls')].fullAudio = Concat(relays[sessions[id]].audioBuffer)
      /\ relays'[sessions[id]].isProcessing

C8_RetryAfterFailure == []GuardOwned /\ [][RetryStarts]_vars

\* a call failed on a socket error in mid-stream; the retry on the same
\* session and the same audio is in flight
C8_Witness ==
  \E c1, c2 \in CallIds :
    /\ c1 < c2
    /\ calls[c1].outcome = "rejected" /\ socks[c1].sent # <<>>
    /\ calls[c2].relay = calls[c1].relay
    /\ sessions[calls[c1].sessionId] = calls[c1].relay
    /\ calls[c2].fullAudio = calls[c1].fullAudio
    /\ InFlight(c2) /\ socks[c2].timer = "pacing"

\* -------------------------------------------------------------------- C9
\* C9: a processing cycle consumes the buffer: once processAndSend(id) has
\* taken the session's buffer the buffer is empty, so that a second
\* processAndSend(id) with no write in between runs no converter, opens no
\* connection and re-sends no audio.
StartsNow(c) == c = Len(calls') /\ Len(calls') = Len(calls) + 1

C9_BufferConsumed ==
  [][\A c \in 1..MaxCalls :
       StartsNow(c) =>
         relays'[calls'[c].relay].audioBuffer = <<>>]_vars

\* -------------------------------------------------------------------- C10
\* C10: a session has a non-null connection only while a streaming attempt
\* of that session is active: whenever its processing guard is false (idle,
\* after a successful processAndSend, after a failed one) its connection is
\* absent.
C10_ConnectionOnlyWhileProcessing ==
  \A r \in 1..Len(relays) : ~relays[r].isProcessing => relays[r].socket = NoSocket

\* -------------------------------------------------------------------- C11
\* C11: create is idempotent per id: create(id, d2) on an id that already
\* has a session leaves that one session in the store and changes nothing in
\* it: buffer, destination, connection and processing guard stay as they are.
IsCreate(id) ==
  \/ last' = Ret("create", id, "noop")
  \/ Len(relays') = Len(relays) + 1 /\ sessions'[id] = Len(relays')

C11_CreateIdempotent ==
  [][\A id \in Ids :
       sessions[id] # NoRelay /\ IsCreate(id) =>
         /\ last' = Ret("create", id, "noop")
         /\ sessions'[id] = sessions[id]
         /\ relays'[sessions[id]] = relays[sessions[id]]
         /\ UNCHANGED <<sessions, relays, calls, socks, files>>]_vars

\* create was called again on a session that holds audio, has the other
\* destination, owns a socket and is being processed
C11_Witness ==
  /\ last = Ret("create", "s1", "noop")
  /\ sessions["s1"] # NoRelay
  /\ LET relay == relays[sessions["s1"]]
     IN /\ relay.audioBuffer # <<>>
        /\ relay.meetingJoinUrl = "u2"
        /\ relay.socket # NoSocket
        /\ relay.isProcessing

\* -------------------------------------------------------------------- C12
\* C12: write(id, chunk) and processAndSend(id) on an id that is not in the
\* store both fail with the session-not-found error, and neither creates a
\* session, changes another session, runs the converter or opens a socket:
\* a session enters the store empty and idle, audio is appended and
\* processing is started only on sessions that are in the store.
Stored(r) == \E id \in Ids : sessions[id] = r

UnknownIdThrows ==
  \A id \in Ids :
    /\ sessions[id] = NoRelay
    /\ last'.op \in {"write", "processAndSend"} /\ last'.sid = id
    => /\ last'.outcome = "throw"
       /\ UNCHANGED <<sessions, relays, calls, socks, files>>

OnlyStoredSessionsUsed ==
  /\ Len(relays') > Len(relays) =>
       relays'[Len(relays')].audioBuffer = <<>>
  /\ \A r \in 1..Len(relays) :
       relays'[r].audioBuffer # relays[r].audioBuffer => Stored(r)
  /\ \A c \in 1..MaxCalls :
       StartsNow(c) => sessions[calls'[c].sessionId] = calls'[c].relay

C12_UnknownSession == [][UnknownIdThrows /\ OnlyStoredSessionsUsed]_vars

\* processAndSend on the unknown id "s2" threw while "s1" is streaming
C12_Witness ==
  /\ last = Ret("processAndSend", "s2", "throw")
  /\ sessions["s2"] = NoRelay
  /\ files["s2"] = NoFiles
  /\ Guarded("s1")
  /\ \E c \in CallIds : calls[c].sessionId = "s1" /\ socks[c].timer = "pacing"
  /\ \A c \in CallIds : calls[c].sessionId # "s2"

\* -------------------------------------------------------------------- C13
\* C13: processAndSend on an existing session whose buffer is empty returns
\* without error, opens no connection, runs no converter, creates no
\* temporary file and leaves the processing guard false.
C13_EmptyBufferNoOp ==
  [][\A id \in Ids :
       /\ sessions[id] # NoRelay
       /\ relays[sessions[id]].audioBuffer = <<>>
       /\ IsProcessAndSend(id)
       => /\ last' = Ret("processAndSend", id, "empty")
          /\ ~relays'[sessions[id]].isProcessing
          /\ files'[id] = files[id]
          /\ UNCHANGED <<sessions, relays, calls, socks, files>>]_vars

\* the call returned early on a fresh session: nothing was started for it
C13_Witness ==
  /\ last = Ret("processAndSend", "s1", "empty")
  /\ sessions["s1"] # NoRelay
  /\ relays[sessions["s1"]] = [socket |-> NoSocket, audioBuffer |-> <<>>,
                                meetingJoinUrl |-> "u1", isProcessing |-> FALSE]
  /\ files["s1"] = NoFiles
  /\ \A c \in CallIds : calls[c].relay # sessions["s1"]

\* -------------------------------------------------------------------- C14
\* C14: stop(id) is idempotent and safe at any time: on an existing session
\* it closes the connection if one is open and removes the session from the
\* store, so that a later write(id) or processAndSend(id) fails with
\* session-not-found; on an absent id (never created or already stopped) it
\* raises no error and changes no session.
IsStopCall(id) == last' = Ret("stop", id, "noop") \/ IsStop(id)

StopRemoves ==
  \A id \in Ids :
    sessions[id] # NoRelay /\ IsStopCall(id) =>
      LET s == relays[sessions[id]].socket IN
      /\ sessions' = [sessions EXCEPT ![id] = NoRelay]
      /\ \A c \in CallIds :
           socks'[c] = IF c = s /\ socks[c].readyState = "OPEN"
                       THEN [socks[c] EXCEPT !.readyState = "CLOSED"]
                       ELSE socks[c]
      /\ UNCHANGED <<relays, calls, files>>

StopAbsentNoOp ==
  \A id \in Ids :
    sessions[id] = NoRelay /\ last'.op = "stop" /\ last'.sid = id =>
      /\ last'.outcome = "noop"
      /\ UNCHANGED <<sessions, relays, calls, socks, files>>

C14_StopIdempotent ==
  [][StopRemoves /\ StopAbsentNoOp /\ UnknownIdThrows]_vars

\* a second stop on a session whose open socket the first stop closed
C14_Witness ==
  /\ last = Ret("stop", "s1", "noop")
  /\ sessions["s1"] = NoRelay
  /\ \E c \in CallIds :
       /\ calls[c].sessionId = "s1"
       /\ relays[calls[c].relay].socket = c
       /\ socks[c].readyState = "CLOSED"
       /\ socks[c].timer = "pacing"
       /\ InFlight(c)

\* -------------------------------------------------------------------- C15
\* C15: updateDestination(id, d) on an absent id is a silent no-op that
\* raises no error and creates no session; on an existing session it
\* changes only the destination and leaves the buffer, the connection and
\* the processing guard unchanged.
UpdateAbsentNoOp ==
  \A id \in Ids :
    sessions[id] = NoRelay /\ last'.op = "updateUrl" /\ last'.sid = id =>
      /\ last'.outcome = "noop"
      /\ UNCHANGED <<sessions, relays, calls, socks, files>>

\* the destination of a relay changes only with everything else kept
UpdateOnlyDestination ==
  \A r \in 1..Len(relays) :
    relays'[r].meetingJoinUrl # relays[r].meetingJoinUrl =>
      /\ Stored(r)
      /\ relays' = [relays EXCEPT ![r].meetingJoinUrl = relays'[r].meetingJoinUrl]
      /\ UNCHANGED <<sessions, calls, socks, files>>

C15_UpdateDestination == [][UpdateAbsentNoOp /\ UpdateOnlyDestination]_vars

\* updateUrl was called on an id whose session had been stopped during a
\* stream: it reported nothing and the store is still empty
C15_Witness ==
  /\ last = Ret("updateUrl", "s1", "noop")
  /\ sessions["s1"] = NoRelay
  /\ Len(relays) = 1
  /\ relays[1].meetingJoinUrl = "u2"
  /\ \E c \in CallIds : InFlight(c) /\ socks[c].readyState = "CLOSED"

\* -------------------------------------------------------------------- C16
\* C16: the audio handed to the converter by a processAndSend call is the
\* concatenation, in write order, of exactly the chunks written to the
\* session and not yet consumed by an earlier processing cycle: no chunk is
\* dropped, reordered or included twice across successive cycles.
\* The buffer of the code only grows (line 44), so its i-th element is the
\* i-th chunk written and every cycle takes a prefix of it; each chunk of
\* Chunks is one byte long, so a cycle that took n bytes took n chunks.
Consumed(r) ==
  LET taken == {Len(calls[d].fullAudio) : d \in {e \in CallIds : calls[e].relay = r}}
  IN  IF taken = {} THEN 0 ELSE CHOOSE n \in taken : \A m \in taken : m <= n

Unconsumed(r) ==
  SubSeq(relays[r].audioBuffer, Consumed(r) + 1, Len(relays[r].audioBuffer))

C16_ExactlyUnconsumedChunks ==
  [][\A c \in 1..MaxCalls :
       StartsNow(c) =>
         calls'[c].fullAudio = Concat(Unconsumed(calls'[c].relay))]_vars

\* -------------------------------------------------------------------- C17
\* C17: a processAndSend call that started processing returns successfully
\* only after the start-control message, all ceil(N/1024) binary frames of
\* its payload and the stop-control message have been sent and the grace
\* delay after the stop-control message has elapsed; it never reports
\* success after a partial delivery.
Succeeds(c) == calls[c].outcome = "pending" /\ calls'[c].outcome = "resolved"

SuccessOnlyAfterGrace ==
  \A c \in CallIds :
    Succeeds(c) =>
      /\ calls[c].phase = "send"
      /\ socks[c].timer = "grace" /\ socks'[c].timer = "none"
      /\ socks[c].offset = socks[c].pcmLen
      /\ socks[c].sent[Len(socks[c].sent)] = StopMsg
      /\ Len(socks[c].sent) = CeilDiv(socks[c].pcmLen, chunkSize) + 2
      /\ socks'[c].sent = socks[c].sent

\* no other way out of a started call is a success
NoOtherSuccess ==
  \A c \in CallIds :
    calls[c].outcome # "pending" => calls'[c].outcome = calls[c].outcome

C17_SuccessOnlyAfterGrace == [][SuccessOnlyAfterGrace /\ NoOtherSuccess]_vars

\* a whole cycle, from the buffer to the grace timer, has returned success
\* and left the session idle
C17_Witness ==
  \E c \in CallIds :
    /\ calls[c].outcome = "resolved"
    /\ calls[c].fullAudio = <<1>>
    /\ socks[c].readyState = "OPEN"
    /\ socks[c].timer = "none"
    /\ Len(socks[c].sent) = 5
    /\ relays[calls[c].relay].isProcessing = FALSE
    /\ files[calls[c].sessionId] = NoFiles

\* -------------------------------------------------------------------- C18
\* C18: Errored is terminal for a streaming invocation: once the socket has
\* reported an error and processAndSend has been rejected with a connection
\* error, the invocation sends no further start-control, binary or
\* stop-control message; if the socket fails to connect, nothing at all is
\* sent.
\* the call was rejected by its socket's error handler (a call rejected by
\* the converter never had a socket)
Errored(c) == calls[c].outcome = "rejected" /\ socks[c].readyState # "NONE"

ErroredIsClosed ==
  \A c \in CallIds : Errored(c) => socks[c].readyState = "CLOSED"

SilentAfterError ==
  \A c \in CallIds :
    Errored(c) =>
      /\ socks'[c].sent = socks[c].sent
      /\ Errored(c)'

ConnectFailureSendsNothing ==
  \A c \in CallIds :
    socks[c].readyState = "CONNECTING" /\ socks'[c].readyState = "CLOSED" =>
      /\ socks'[c].sent = <<>>
      /\ InFlight(c) => calls'[c].outcome = "rejected"

C18_ErroredIsTerminal ==
  []ErroredIsClosed /\ [][SilentAfterError /\ ConnectFailureSendsNothing]_vars

\* the socket broke after the first frame; the pacing timer that was still
\* armed has fired since and sent nothing
C18_Witness ==
  \E c \in CallIds :
    /\ Errored(c)
    /\ socks[c].sent = <<StartMsg, BinaryMsg(0, 1024)>>
    /\ socks[c].timer = "none"
    /\ socks[c].readyState = "CLOSED"

\* -------------------------------------------------------------------- C19
\* C19: after stop(id) has returned, no socket opened on behalf of that
\* session is open or becomes open and no frame is sent for it, also when
\* stop is called while processAndSend(id) is still in the transcode phase
\* or while its socket is still connecting.
\* A relay leaves the store only by stop (line 274): the relay of a call
\* that is not stored is a stopped session.
Stopped(c) == ~Stored(calls[c].relay)

NoOpenSocketAfterStop == \A c \in CallIds : Stopped(c) => ~IsOpen(c)

NoFrameAfterStop ==
  \A c \in CallIds : Stopped(c) => socks'[c].sent = socks[c].sent

C19_SilentAfterStop == []NoOpenSocketAfterStop /\ [][NoFrameAfterStop]_vars

\* -------------------------------------------------------------------- C20
\* C20: no two processAndSend operations that are in flight at the same
\* time use the same temporary artifact paths, and no operation removes a
\* temporary artifact that another in-flight operation still needs, also
\* when a session is stopped during processing and a session with the same
\* id is created, written and processed before the first has returned.
\* Both paths are built from the session id alone (lines 80-82).
TempPaths(c) == calls[c].sessionId

DistinctTempPaths ==
  \A c \in CallIds : \A d \in CallIds :
    c # d /\ InFlight(c) /\ InFlight(d) => TempPaths(c) # TempPaths(d)

\* a call whose converter is still running needs its input file
NeededArtifactsKept ==
  \A c \in CallIds :
    /\ InFlight(c) /\ calls[c].phase = "transcode"
    /\ calls'[c].outcome = "pending" /\ calls'[c].phase = "transcode"
    => files'[TempPaths(c)].input = TRUE

C20_PrivateTempArtifacts == []DistinctTempPaths /\ [][NeededArtifactsKept]_vars

\* -------------------------------------------------------------------- C21
\* C21: a session never holds more than one socket that is not closed: when
\* a processAndSend call opens a new socket and stores it as the session's
\* connection, every socket opened by an earlier processAndSend of the same
\* session is already closed, so that stop(id) closes every socket the
\* session ever opened that is still open.
NotClosed(c) == socks[c].readyState \in {"CONNECTING", "OPEN"}

LiveSockets(r) == {c \in CallIds : calls[c].relay = r /\ NotClosed(c)}

C21_OneLiveSocket ==
  \A r \in 1..Len(relays) : Cardinality(LiveSockets(r)) <= 1

\* -------------------------------------------------------------------- C22
\* C22: a write(id, chunk) accepted while processAndSend(id) is in flight
\* does not change the payload being transcoded and streamed by the
\* in-flight call (the payload is the buffer content at the moment
\* processing started), and the chunk is not lost: it is still in the
\* session's buffer when the in-flight call returns.
IsWriteTo(r) ==
  /\ r \in 1..Len(relays)
  /\ Len(relays'[r].audioBuffer) = Len(relays[r].audioBuffer) + 1

WriteKeepsPayload ==
  \A c \in CallIds :
    InFlight(c) /\ IsWriteTo(calls[c].relay) =>
      /\ calls'[c] = calls[c]
      /\ socks'[c] = socks[c]
      /\ files' = files
      /\ SubSeq(relays'[calls[c].relay].audioBuffer, 1,
                Len(relays[calls[c].relay].audioBuffer))
           = relays[calls[c].relay].audioBuffer

\* the payload of a call never changes once taken
PayloadFixed ==
  \A c \in CallIds :
    /\ calls'[c].fullAudio = calls[c].fullAudio
    /\ calls[c].phase = "send" => socks'[c].pcmLen = socks[c].pcmLen

\* the step in which a call returns leaves the buffer as the writes made it
ReturnKeepsBuffer ==
  \A c \in CallIds :
    InFlight(c) /\ calls'[c].outcome # "pending" =>
      relays'[calls[c].relay].audioBuffer = relays[calls[c].relay].audioBuffer

\* the payload is the buffer content at the start; what was written later
\* follows it in the buffer
PayloadIsStartOfBuffer ==
  \A c \in CallIds :
    LET buf == relays[calls[c].relay].audioBuffer
        n == Len(calls[c].fullAudio)
    IN  n <= Len(buf) /\ Concat(SubSeq(buf, 1, n)) = calls[c].fullAudio

C22_WriteDuringProcessing ==
  /\ []PayloadIsStartOfBuffer
  /\ [][WriteKeepsPayload /\ PayloadFixed /\ ReturnKeepsBuffer]_vars

\* the call took one chunk and is streaming it; a second chunk has been
\* written since and sits behind the first in the buffer
C22_Witness ==
  \E c \in CallIds :
    /\ InFlight(c)
    /\ calls[c].fullAudio = <<1>>
    /\ socks[c].sent = <<StartMsg, BinaryMsg(0, 1024)>>
    /\ socks[c].timer = "pacing"
    /\ relays[calls[c].relay].audioBuffer = << <<1>>, <<1>> >>

\* -------------------------------------------------------------------- C23
\* C23: sessions are independent: for two distinct ids A and B, any
\* operation on A (create, write, updateUrl, processAndSend in any phase or
\* outcome, stop) leaves B's presence in the store, buffer, destination,
\* connection and processing guard unchanged, and a processAndSend on A in
\* flight never causes a processAndSend on B to be rejected as
\* already-processing.
\* the step leaves alone the entry of id in the store and the relay stored
\* there (buffer, destination, connection, guard), the calls made for id
\* with their sockets (it starts none), and the temp files of id
LeftAlone(id) ==
  /\ sessions'[id] = sessions[id]
  /\ sessions[id] # NoRelay => relays'[sessions[id]] = relays[sessions[id]]
  /\ files'[id] = files[id]
  /\ \A c \in CallIds :
       calls[c].sessionId = id => calls'[c] = calls[c] /\ socks'[c] = socks[c]
  /\ Len(calls') > Len(calls) => calls'[Len(calls')].sessionId # id

\* the step is an operation on id, or a later phase of one: it reports an
\* outcome for id or changes something of id
OperatesOn(id) == last'.sid = id \/ ~LeftAlone(id)

\* for A # B, OperatesOn(A) => LeftAlone(B)
FrameOfOthers ==
  \A B \in Ids :
    LeftAlone(B) \/ \A A \in Ids \ {B} : ~OperatesOn(A)

\* a processAndSend(B) is turned away only by B's own guard
BusyOnlyByOwnCall ==
  \A B \in Ids :
    last' = Ret("processAndSend", B, "busy") => Guarded(B)

C23_SessionsIndependent == [][FrameOfOthers /\ BusyOnlyByOwnCall]_vars

\* both sessions are being processed at the same time, one still in its
\* converter, the other streaming
C23_Witness ==
  \E c \in CallIds : \E d \in CallIds :
    /\ calls[c].sessionId = "s1" /\ calls[d].sessionId = "s2"
    /\ InFlight(c) /\ InFlight(d)
    /\ calls[c].phase = "send" /\ socks[c].timer = "pacing"
    /\ calls[d].phase = "transcode"
    /\ c < d
====
